---------------------------- MODULE Spec2Model ----------------------------
(***************************************************************************)
(* A model of the audio analysis services of musestruct's backend:         *)
(*   services/spectrogram_bpm_analysis.rs  (spectrogram, beats, BPM)       *)
(*   services/key_analysis.rs              (chroma profile, key)           *)
(*   services/audio_analysis.rs            (remote download wrapper)       *)
(*                                                                         *)
(* Numbers.  The code computes in f32; the model computes exactly, in      *)
(* fixed point, on inputs chosen so that no rounding takes place:          *)
(*   - a timestamp is kept in samples (frame_idx * SPECTROGRAM_HOP_SIZE);  *)
(*     the code's seconds are that count divided by the sample rate, so    *)
(*     "t2 - t1 >= 0.1" is written 10 * (t2 - t1) >= sample_rate;          *)
(*   - an energy is kept in 1/EnergyScale of a magnitude unit;             *)
(*   - a BPM is kept in 1/BpmScale of a beat per minute.                   *)
(***************************************************************************)
EXTENDS Integers, Sequences, FiniteSets, TLC

VARIABLES
    \* ---- BPM pipeline (analyze_bpm_spectrogram_blocking) ----
    pc,                \* position in analyze_bpm_spectrogram_blocking
    track,             \* AudioTrack: sample_rate, samples (length and per-window spectra)
    spectrogram,       \* Spectrogram.data, or <<>> before generate_spectrogram
    spectrogram_path,  \* <<path>> once save_spectrogram_image has returned Ok
    cluster_beats,     \* detect_beats_from_spectrogram: beats before debouncing
    beats,             \* detect_beats_from_spectrogram: the returned (debounced) beats
    analysis_cache,    \* AnalysisCache returned with the beats
    bpm,               \* result of calculate_bpm_histogram
    result,            \* result of analyze_bpm_spectrogram_blocking
    \* ---- key detection (detect_key_from_chroma) ----
    kpc,               \* position of the key analysis
    chroma_profile,    \* ChromaProfile.profile
    best_key,          \* detect_key_from_chroma: best_score, best_key_index, best_is_major
    key,               \* the MusicalKey returned
    \* ---- service calls sharing the file system ----
    calls,             \* per call: kind, argument, position, locals, result
    temp_files,        \* temporary files that exist in std::env::temp_dir()
    cache_files        \* ./cache/spectrograms: path -> what the image shows

pipeVars == <<pc, track, spectrogram, spectrogram_path, cluster_beats, beats,
              analysis_cache, bpm, result>>
keyVars  == <<kpc, chroma_profile, best_key, key>>
svcVars  == <<calls, temp_files, cache_files>>
vars     == <<pipeVars, keyVars, svcVars>>

-----------------------------------------------------------------------------
(* Program constants *)

SPECTROGRAM_WINDOW_SIZE == 4096
SPECTROGRAM_HOP_SIZE == 256
LOW_FREQ_CUTOFF == 10
ADAPTIVE_THRESHOLD_PERCENTAGE == 80    \* 0.8, in hundredths
SCORE_DEVIATION_PERCENTAGE == 10       \* 0.1, in hundredths
SECTION_SIZE == 100                    \* section_size
MAX_GROUP_GAP_DEN == 20                \* max_group_gap = 0.05 s = 1/20 s
MIN_INTERVAL_DEN == 10                 \* debounce min_interval = 0.1 s = 1/10 s
DEFAULT_BPM == 120
MIN_VALID_BPM == 50
MAX_VALID_BPM == 250

(* Fixed-point scales of the model *)
EnergyScale == 10 * 10
BpmScale == 10 * 10
ConfidenceScale == 10 * 10 * 10

-----------------------------------------------------------------------------
(* Generic helpers *)

Min(a, b) == IF a <= b THEN a ELSE b
Max(a, b) == IF a >= b THEN a ELSE b
Abs(a) == IF a < 0 THEN -a ELSE a

RECURSIVE SumSeq(_)
SumSeq(s) == IF s = <<>> THEN 0 ELSE Head(s) + SumSeq(Tail(s))

\* ceil(a / b) for a >= 0, b > 0
CeilDiv(a, b) == (a + b - 1) \div b

-----------------------------------------------------------------------------
(* generate_spectrogram                                                    *)
(*                                                                         *)
(* The track's samples are kept as their number (samples_len) and, for     *)
(* each analysis window, the outcome of samples_fft_to_spectrum on it      *)
(* (spectra): a sequence of magnitudes, or FftErr.                         *)

FftErr == <<-1>>

\* the loop with whole windows only
NumWholeWindows(samples_len) ==
    IF samples_len < SPECTROGRAM_WINDOW_SIZE THEN 0
    ELSE (samples_len - SPECTROGRAM_WINDOW_SIZE) \div SPECTROGRAM_HOP_SIZE + 1

\* The number of windows the loop visits before it breaks: the starts 0, hop,
\* 2*hop, ... with min(start + window, len) - start >= window / 2.
NumWindows(samples_len) ==
    IF samples_len < SPECTROGRAM_WINDOW_SIZE \div 2 THEN 0
    ELSE (samples_len - SPECTROGRAM_WINDOW_SIZE \div 2) \div SPECTROGRAM_HOP_SIZE + 1

\* window_end - window_start of window w = 1, 2, ...: the samples of the
\* buffer in the window
WindowSamples(w, samples_len) ==
    Min((w - 1) * SPECTROGRAM_HOP_SIZE + SPECTROGRAM_WINDOW_SIZE, samples_len)
        - (w - 1) * SPECTROGRAM_HOP_SIZE

\* window_samples.resize(SPECTROGRAM_WINDOW_SIZE, 0.0): the zeros appended
ZeroPadding(w, samples_len) == SPECTROGRAM_WINDOW_SIZE - WindowSamples(w, samples_len)

\* the loop leaving at the first window whose transform fails
SpectrogramDataUntilFailure(spectra, n) ==
    LET failed == {w \in 1..n : spectra[w] = FftErr}
    IN  IF failed = {} THEN SubSeq(spectra, 1, n)
        ELSE SubSeq(spectra, 1, (CHOOSE w \in failed : \A o \in failed : w <= o) - 1)

\* spectrogram_data after the loop: the magnitudes of the windows whose
\* transform succeeded, in window order (a failed window is skipped).
SpectrogramData(spectra, n) ==
    SelectSeq(SubSeq(spectra, 1, n), LAMBDA spectrum : spectrum # FftErr)

\* Ok(Spectrogram) / Err("Failed to generate spectrogram data")
generate_spectrogram(t) ==
    LET data == SpectrogramData(t.spectra, NumWindows(t.samples_len))
    IN  IF data = <<>>
        THEN [ok |-> FALSE, data |-> <<>>]
        ELSE [ok |-> TRUE, data |-> data]

-----------------------------------------------------------------------------
(* save_spectrogram_image                                                  *)

MinOfSeq(s) == CHOOSE x \in {s[i] : i \in DOMAIN s} : \A i \in DOMAIN s : x <= s[i]
MaxOfSeq(s) == CHOOSE x \in {s[i] : i \in DOMAIN s} : \A i \in DOMAIN s : x >= s[i]

\* min_val / max_val over every magnitude of the spectrogram
SpectrogramMin(data) == MinOfSeq([i \in 1..Len(data) |-> MinOfSeq(data[i])])
SpectrogramMax(data) == MaxOfSeq([i \in 1..Len(data) |-> MaxOfSeq(data[i])])

\* "ok" | "invalid_dimensions" | "no_dynamic_range"
\* (the image encoder and the disk are taken to work)
save_spectrogram_image(data) ==
    IF Len(data) = 0 \/ Len(data[1]) = 0 THEN "invalid_dimensions"
    ELSE IF SpectrogramMax(data) - SpectrogramMin(data) = 0 THEN "no_dynamic_range"
    ELSE "ok"

-----------------------------------------------------------------------------
(* detect_beats_from_spectrogram                                           *)

\* Step 1: index of the dominant bin (Iterator::max_by keeps the last of
\* several equal maxima)
DominantIdx(frame) ==
    LET m == MaxOfSeq(frame)
    IN  CHOOSE i \in 1..Len(frame) :
          /\ frame[i] = m
          /\ \A j \in (i + 1)..Len(frame) : frame[j] # m

\* Step 1: (frame_idx, timestamp, avg_energy, dominant_freq) of every frame;
\* dominant_freq in mHz
FrameEnergies(data, sample_rate) ==
    [k \in 1..Len(data) |->
        [frame_idx |-> k - 1,
         timestamp |-> (k - 1) * SPECTROGRAM_HOP_SIZE,
         energy    |-> (SumSeq(data[k]) * EnergyScale) \div Len(data[k]),
         dominant_freq |-> LOW_FREQ_CUTOFF * 1000 + (DominantIdx(data[k]) - 1)
                              * ((sample_rate * 1000) \div SPECTROGRAM_WINDOW_SIZE)]]

\* max_energy of the cache: fold from 0.0
MaxEnergy(fe) == IF fe = <<>> THEN 0 ELSE Max(0, MaxOfSeq([k \in 1..Len(fe) |-> fe[k].energy]))

\* Step 2: the section starts, (0..len).step_by(section_size / 2)
NumSections(n) == CeilDiv(n, SECTION_SIZE \div 2)
SectionStart(j) == (j - 1) * (SECTION_SIZE \div 2)
SectionEnd(j, n) == Min(SectionStart(j) + SECTION_SIZE, n)

\* a threshold at 95% of the energy range, whatever the percentage
AdaptiveThresholdNearMax(fe, j, pct) ==
    LET es == [k \in (SectionStart(j) + 1)..SectionEnd(j, Len(fe)) |-> fe[k].energy]
        lo == MinOfSeq(es)
        hi == Max(0, MaxOfSeq(es))
    IN  lo + ((hi - lo) * 95) \div 100

\* Step 2: adaptive_threshold of section j: min + (max - min) * pct
\* (min folded from +inf, max folded from 0.0)
AdaptiveThreshold(fe, j, pct) ==
    LET es == [k \in (SectionStart(j) + 1)..SectionEnd(j, Len(fe)) |-> fe[k].energy]
        lo == MinOfSeq(es)
        hi == Max(0, MaxOfSeq(es))
    IN  lo + ((hi - lo) * pct) \div 100

\* section_thresholds computed again, at another percentage
SectionThresholdsRecomputed(fe, pct) ==
    [j \in 1..NumSections(Len(fe)) |->
        [section_start |-> SectionStart(j),
         section_end   |-> SectionEnd(j, Len(fe)),
         threshold     |-> AdaptiveThreshold(fe, j, 95)]]

\* section_thresholds: (section_start, section_end, threshold) per section
SectionThresholds(fe, pct) ==
    [j \in 1..NumSections(Len(fe)) |->
        [section_start |-> SectionStart(j),
         section_end   |-> SectionEnd(j, Len(fe)),
         threshold     |-> AdaptiveThreshold(fe, j, pct)]]

\* the comparison turned round: the frames just below the threshold
SectionCandidatesBelow(fe, first, last, threshold) ==
    LET below == SelectSeq(SubSeq(fe, first, last),
                           LAMBDA f : f.energy < threshold /\ 2 * f.energy > threshold)
    IN  [k \in 1..Len(below) |->
            [frame_idx |-> below[k].frame_idx, timestamp |-> below[k].timestamp,
             energy |-> below[k].energy, dominant_freq |-> below[k].dominant_freq,
             threshold |-> threshold]]

\* the comparison made non-strict: the frames at or above the threshold
SectionCandidatesAtLeast(fe, first, last, threshold) ==
    LET above == SelectSeq(SubSeq(fe, first, last), LAMBDA f : f.energy >= threshold)
    IN  [k \in 1..Len(above) |->
            [frame_idx |-> above[k].frame_idx, timestamp |-> above[k].timestamp,
             energy |-> above[k].energy, dominant_freq |-> above[k].dominant_freq,
             threshold |-> threshold]]

\* Step 2: the frames of section j above its threshold, in frame order
SectionCandidates(fe, first, last, threshold) ==
    LET above == SelectSeq(SubSeq(fe, first, last), LAMBDA f : f.energy > threshold)
    IN  [k \in 1..Len(above) |->
            [frame_idx |-> above[k].frame_idx, timestamp |-> above[k].timestamp,
             energy |-> above[k].energy, dominant_freq |-> above[k].dominant_freq,
             threshold |-> threshold]]

\* candidate_frames after the section loop: section after section
RECURSIVE CandidateFrames(_, _, _)
CandidateFrames(fe, j, pct) ==
    IF j = 0 THEN <<>>
    ELSE CandidateFrames(fe, j - 1, pct)
         \o SectionCandidates(fe, SectionStart(j) + 1, SectionEnd(j, Len(fe)),
                              AdaptiveThreshold(fe, j, pct))

\* Step 3: candidate_frames.sort_by(timestamp), a stable sort
RECURSIVE InsertByTimestamp(_, _)
InsertByTimestamp(sorted, c) ==
    IF sorted = <<>> THEN <<c>>
    ELSE IF sorted[Len(sorted)].timestamp <= c.timestamp THEN Append(sorted, c)
    ELSE Append(InsertByTimestamp(SubSeq(sorted, 1, Len(sorted) - 1), c),
                sorted[Len(sorted)])

RECURSIVE SortByTimestamp(_)
SortByTimestamp(cs) ==
    IF cs = <<>> THEN <<>>
    ELSE InsertByTimestamp(SortByTimestamp(SubSeq(cs, 1, Len(cs) - 1)), cs[Len(cs)])

\* Step 3: group the sorted candidates; a candidate joins the current group
\* when the group is empty or timestamp - last_timestamp <= max_group_gap.
\* The state of the loop is (energy_groups, current_group).
RECURSIVE GroupLoop(_, _, _, _)
GroupLoop(cs, k, sample_rate, st) ==
    IF k > Len(cs) THEN st
    ELSE LET c == cs[k]
             cur == st.current_group
             last_timestamp == cur[Len(cur)].timestamp
         IN  IF cur = <<>>
                \/ (c.timestamp - last_timestamp) * MAX_GROUP_GAP_DEN <= sample_rate
             THEN GroupLoop(cs, k + 1, sample_rate,
                            [st EXCEPT !.current_group = Append(cur, c)])
             ELSE GroupLoop(cs, k + 1, sample_rate,
                            [energy_groups |-> Append(st.energy_groups, cur),
                             current_group |-> <<c>>])

\* all the candidates in one group
OneGroup(cs, sample_rate) == IF cs = <<>> THEN <<>> ELSE <<cs>>

EnergyGroups(cs, sample_rate) ==
    LET st == GroupLoop(cs, 1, sample_rate,
                        [energy_groups |-> <<>>, current_group |-> <<>>])
    IN  IF st.current_group # <<>>
        THEN Append(st.energy_groups, st.current_group)
        ELSE st.energy_groups

\* the frame closest to the middle, the last such frame winning
BestFrameLast(group) ==
    LET mid2 == group[1].timestamp + group[Len(group)].timestamp
        dist2(k) == Abs(2 * group[k].timestamp - mid2)
        best == CHOOSE k \in 1..Len(group) :
                  /\ \A m \in 1..Len(group) : dist2(k) <= dist2(m)
                  /\ \A m \in (k + 1)..Len(group) : dist2(m) > dist2(k)
    IN  group[best]

\* Step 4: the frame of a group closest to its temporal middle; the first
\* such frame wins (distance < best_distance).  Distances are doubled:
\* |2 * t - (start + end)| = 2 * |t - (start + end) / 2|.
BestFrame(group) ==
    LET mid2 == group[1].timestamp + group[Len(group)].timestamp
        dist2(k) == Abs(2 * group[k].timestamp - mid2)
        best == CHOOSE k \in 1..Len(group) :
                  /\ \A m \in 1..Len(group) : dist2(k) <= dist2(m)
                  /\ \A m \in 1..(k - 1) : dist2(m) > dist2(k)
    IN  group[best]

\* Step 4: the beat taken from a group; confidence = min(energy / threshold, 2.0)
GroupBeat(group) ==
    LET f == BestFrame(group)
    IN  [timestamp |-> f.timestamp, energy |-> f.energy,
         dominant_freq |-> f.dominant_freq,
         confidence |-> Min((f.energy * ConfidenceScale) \div f.threshold,
                            2 * ConfidenceScale)]

GroupBeats(groups) == [g \in 1..Len(groups) |-> GroupBeat(groups[g])]

\* debounce_spectrogram_beats: keep a beat when it is at least min_interval
\* after the last kept beat; last_timestamp starts at -1.0 s
RECURSIVE DebounceLoop(_, _, _, _, _)
DebounceLoop(bs, k, sample_rate, last_timestamp, debounced) ==
    IF k > Len(bs) THEN debounced
    ELSE IF (bs[k].timestamp - last_timestamp) * MIN_INTERVAL_DEN >= sample_rate
         THEN DebounceLoop(bs, k + 1, sample_rate, bs[k].timestamp,
                           Append(debounced, bs[k]))
         ELSE DebounceLoop(bs, k + 1, sample_rate, last_timestamp, debounced)

NoDebounce(bs, sample_rate) == bs

debounce_spectrogram_beats(bs, sample_rate) ==
    IF bs = <<>> THEN bs
    ELSE DebounceLoop(bs, 1, sample_rate, -sample_rate, <<>>)

\* detect_beats_from_spectrogram with the threshold percentage as a
\* parameter (the code fixes it to ADAPTIVE_THRESHOLD_PERCENTAGE)
DetectBeats(data, sample_rate, pct) ==
    LET fe == FrameEnergies(data, sample_rate)
        candidate_frames == SortByTimestamp(CandidateFrames(fe, NumSections(Len(fe)), pct))
        energy_groups == EnergyGroups(candidate_frames, sample_rate)
        group_beats == GroupBeats(energy_groups)
    IN  [cluster_beats |-> group_beats,
         beats |-> debounce_spectrogram_beats(group_beats, sample_rate),
         cache |-> [frame_energies |->
                       [k \in 1..Len(fe) |-> [frame_idx |-> fe[k].frame_idx,
                                              timestamp |-> fe[k].timestamp,
                                              energy |-> fe[k].energy]],
                    section_thresholds |-> SectionThresholds(fe, pct),
                    energy_groups |-> energy_groups,
                    max_energy |-> MaxEnergy(fe)]]

detect_beats_from_spectrogram(data, sample_rate) ==
    DetectBeats(data, sample_rate, ADAPTIVE_THRESHOLD_PERCENTAGE)

-----------------------------------------------------------------------------
(* calculate_bpm_histogram                                                 *)
(*                                                                         *)
(* Intervals are in samples.  bin_size = 0.01 s is sample_rate / 100       *)
(* samples; the sample rates of the model are multiples of 100.            *)

\* intervals between consecutive beats
Intervals(bs) == [k \in 1..(Len(bs) - 1) |-> bs[k + 1].timestamp - bs[k].timestamp]

\* the range without its bounds
ValidIntervalStrict(d, sample_rate) == 5 * d > sample_rate /\ d < 2 * sample_rate

\* the range from 0.1 s
ValidIntervalFromTenth(d, sample_rate) == 10 * d >= sample_rate /\ d <= 2 * sample_rate

\* interval >= 0.2 && interval <= 2.0
ValidInterval(d, sample_rate) == 5 * d >= sample_rate /\ d <= 2 * sample_rate

FilterIntervals(ds, sample_rate) ==
    SelectSeq(ds, LAMBDA d : ValidInterval(d, sample_rate))

\* ((interval - min_interval) / bin_size) as usize
BinIndex(d, min_interval, sample_rate) == ((d - min_interval) * 100) \div sample_rate

\* histogram: the count of bin b = 0 .. num_bins - 1 is histogram[b + 1]
Histogram(ds, sample_rate) ==
    LET min_interval == MinOfSeq(ds)
        max_interval == MaxOfSeq(ds)
        num_bins == CeilDiv((max_interval - min_interval) * 100, sample_rate) + 1
    IN  [i \in 1..num_bins |->
            Cardinality({k \in 1..Len(ds) :
                            BinIndex(ds[k], min_interval, sample_rate) = i - 1})]

\* total_score of bin b: the counts of bins b - 2 .. b + 2 that exist
BinScore(h, b) ==
    LET start_bin == Max(b - 2, 0)
        end_bin == Min(b + 2 + 1, Len(h))
    IN  SumSeq([i \in 1..(end_bin - start_bin) |-> h[start_bin + i]])

\* peak_scores before sorting: (total_score, center_interval) of the
\* non-empty bins, in bin order
PeakScores(h, min_interval, sample_rate) ==
    LET bins == SelectSeq([i \in 1..Len(h) |-> i - 1], LAMBDA b : h[b + 1] # 0)
    IN  [k \in 1..Len(bins) |->
            [score |-> BinScore(h, bins[k]),
             interval |-> min_interval + bins[k] * (sample_rate \div 100)]]

\* peak_scores.sort_by(|a, b| b.0.cmp(&a.0)): stable, by score descending
RECURSIVE InsertByScore(_, _)
InsertByScore(sorted, p) ==
    IF sorted = <<>> THEN <<p>>
    ELSE IF sorted[Len(sorted)].score >= p.score THEN Append(sorted, p)
    ELSE Append(InsertByScore(SubSeq(sorted, 1, Len(sorted) - 1), p),
                sorted[Len(sorted)])

RECURSIVE SortByScore(_)
SortByScore(ps) ==
    IF ps = <<>> THEN <<>>
    ELSE InsertByScore(SortByScore(SubSeq(ps, 1, Len(ps) - 1)), ps[Len(ps)])

\* (best_score as f32 * (1.0 - SCORE_DEVIATION_PERCENTAGE)) as usize
ScoreThreshold(best_score) == (best_score * (100 - SCORE_DEVIATION_PERCENTAGE)) \div 100

CandidatesWithinThreshold(ps, score_threshold) ==
    SelectSeq(ps, LAMBDA p : p.score >= score_threshold)

\* 60.0 / interval
IntervalBpm(interval, sample_rate) == (60 * BpmScale * sample_rate) \div interval

\* averaged_bpm with USE_WEIGHTED_AVERAGING = true
AveragedBpm(cands, sample_rate) ==
    LET total_weighted_bpm ==
            SumSeq([k \in 1..Len(cands) |->
                       cands[k].score * IntervalBpm(cands[k].interval, sample_rate)])
        total_weight == SumSeq([k \in 1..Len(cands) |-> cands[k].score])
    IN  IF total_weight > 0 THEN total_weighted_bpm \div total_weight
        ELSE IntervalBpm(cands[1].interval, sample_rate)

\* the subdivision check with third-time tried first
HarmonicCorrectionThirdFirst(averaged_bpm) ==
    LET half_bpm == averaged_bpm \div 2
        third_bpm == averaged_bpm \div 3
    IN  IF averaged_bpm > 160 * BpmScale
        THEN IF third_bpm >= 80 * BpmScale /\ third_bpm <= 160 * BpmScale THEN third_bpm
             ELSE IF half_bpm >= 80 * BpmScale /\ half_bpm <= 160 * BpmScale THEN half_bpm
             ELSE averaged_bpm
        ELSE averaged_bpm

\* the subdivision check at the end of calculate_bpm_histogram
HarmonicCorrection(averaged_bpm) ==
    LET half_bpm == averaged_bpm \div 2
        third_bpm == averaged_bpm \div 3
    IN  IF averaged_bpm > 160 * BpmScale
        THEN IF half_bpm >= 80 * BpmScale /\ half_bpm <= 160 * BpmScale THEN half_bpm
             ELSE IF third_bpm >= 80 * BpmScale /\ third_bpm <= 160 * BpmScale THEN third_bpm
             ELSE averaged_bpm
        ELSE averaged_bpm

\* the estimate without the check of the number of beats
EstimateWithoutBeatCount(bs, sample_rate) ==
    LET filtered_intervals == FilterIntervals(Intervals(bs), sample_rate)
    IN  IF filtered_intervals = <<>>
        THEN [ok |-> FALSE, err |-> "no_valid_intervals", bpm |-> 0]
        ELSE LET h == Histogram(filtered_intervals, sample_rate)
                 peak_scores == SortByScore(PeakScores(h, MinOfSeq(filtered_intervals),
                                                       sample_rate))
                 cands == CandidatesWithinThreshold(peak_scores,
                                                    ScoreThreshold(peak_scores[1].score))
             IN  [ok |-> TRUE, err |-> "",
                  bpm |-> HarmonicCorrection(AveragedBpm(cands, sample_rate))]

\* an estimate that is offset by the number of files in the image cache
EstimateOffsetByCache(bs, sample_rate) ==
    IF Len(bs) < 3 THEN [ok |-> FALSE, err |-> "not_enough_beats", bpm |-> 0]
    ELSE LET e == EstimateWithoutBeatCount(bs, sample_rate)
         IN  [e EXCEPT !.bpm = @ + BpmScale * Cardinality(DOMAIN cache_files)]

\* Ok(bpm) | Err("Not enough beats ...") | Err("No valid intervals ...")
calculate_bpm_histogram(bs, sample_rate) ==
    IF Len(bs) < 3 THEN [ok |-> FALSE, err |-> "not_enough_beats", bpm |-> 0]
    ELSE LET filtered_intervals == FilterIntervals(Intervals(bs), sample_rate)
         IN  IF filtered_intervals = <<>>
             THEN [ok |-> FALSE, err |-> "no_valid_intervals", bpm |-> 0]
             ELSE LET h == Histogram(filtered_intervals, sample_rate)
                      peak_scores == SortByScore(PeakScores(h, MinOfSeq(filtered_intervals),
                                                            sample_rate))
                      cands == CandidatesWithinThreshold(peak_scores,
                                                         ScoreThreshold(peak_scores[1].score))
                  IN  [ok |-> TRUE, err |-> "",
                       bpm |-> HarmonicCorrection(AveragedBpm(cands, sample_rate))]

ValidateBpmNoFallback(b) == b

\* "Validate BPM range" in analyze_bpm_spectrogram_blocking
ValidateBpm(b) ==
    IF b >= MIN_VALID_BPM * BpmScale /\ b <= MAX_VALID_BPM * BpmScale
    THEN b ELSE DEFAULT_BPM * BpmScale

-----------------------------------------------------------------------------
(* Inputs of the BPM pipeline                                              *)
(*                                                                         *)
(* A track is a floor of constant energy with a few pulses on it.  Each    *)
(* pulse starts at a frame of PulseStarts and has one of the Shapes (the   *)
(* avg_energy of its consecutive frames).  A frame of energy e has the     *)
(* two magnitudes e + e/2 and e - e/2, whose mean is e.                    *)

MaxFrames == 100     \* windows of the longest track
MaxPulses == 3       \* pulses on a track
SampleRates == {8000, 44100}
Floors == {0, 10}
PulseStarts == {0, 10, 12, 48, 52, 98}
Shapes == << <<100>>, <<90>>, <<100, 90, 90, 90, 100>> >>

\* samples.len(): too short for a window, one window, MaxFrames windows
SampleCounts ==
    {0, SPECTROGRAM_WINDOW_SIZE \div 2 - 1, SPECTROGRAM_WINDOW_SIZE \div 2,
     SPECTROGRAM_WINDOW_SIZE \div 2 + (MaxFrames - 1) * SPECTROGRAM_HOP_SIZE}

PulseSets ==
    {f \in UNION {[S -> 1..Len(Shapes)] : S \in SUBSET PulseStarts} :
        Cardinality(DOMAIN f) <= MaxPulses}

LevelAt(idx, floor, pulses) ==
    LET hits == {Shapes[pulses[p]][idx - p + 1] :
                    p \in {q \in DOMAIN pulses :
                              q <= idx /\ idx < q + Len(Shapes[pulses[q]])}}
    IN  IF hits = {} THEN floor
        ELSE Max(floor, CHOOSE e \in hits : \A o \in hits : o <= e)

FrameOf(e) == <<e + e \div 2, e - e \div 2>>

SpectraOf(n, floor, pulses) == [w \in 1..n |-> FrameOf(LevelAt(w - 1, floor, pulses))]

-----------------------------------------------------------------------------
(* analyze_bpm_spectrogram_blocking, step by step                          *)

NoBpm == [ok |-> FALSE, err |-> "none", bpm |-> 0]
NoCache == [frame_energies |-> <<>>, section_thresholds |-> <<>>,
            energy_groups |-> <<>>, max_energy |-> 0]
Pending == [status |-> "pending", bpm |-> 0, err |-> ""]
Ok(b) == [status |-> "ok", bpm |-> b, err |-> ""]
Err(e) == [status |-> "err", bpm |-> 0, err |-> e]

KeyIdle ==
    /\ kpc = "idle"
    /\ chroma_profile = <<>>
    /\ best_key = <<>>
    /\ key = <<>>

SvcIdle ==
    /\ calls = <<>>
    /\ temp_files = {}
    /\ cache_files = <<>>

Init ==
    /\ pc = "generate"
    /\ \E sr \in SampleRates, n \in SampleCounts, floor \in Floors, pulses \in PulseSets :
          track = [sample_rate |-> sr, samples_len |-> n,
                   spectra |-> SpectraOf(NumWindows(n), floor, pulses)]
    /\ spectrogram = <<>>
    /\ spectrogram_path = <<>>
    /\ cluster_beats = <<>>
    /\ beats = <<>>
    /\ analysis_cache = NoCache
    /\ bpm = NoBpm
    /\ result = Pending
    /\ KeyIdle
    /\ SvcIdle

\* Step 2: generate_spectrogram(&track.samples, track.sample_rate)?
GenerateSpectrogram ==
    /\ pc = "generate"
    /\ LET r == generate_spectrogram(track)
       IN  IF r.ok
           THEN /\ spectrogram' = r.data
                /\ pc' = "save_image"
                /\ UNCHANGED result
           ELSE /\ result' = Err("Failed to generate spectrogram data")
                /\ pc' = "done"
                /\ UNCHANGED spectrogram
    /\ UNCHANGED <<track, spectrogram_path, cluster_beats, beats, analysis_cache, bpm>>
    /\ UNCHANGED <<keyVars, svcVars>>

\* Step 3: save_spectrogram_image(&spectrogram, file_path)?
SaveSpectrogramImage ==
    /\ pc = "save_image"
    /\ LET r == save_spectrogram_image(spectrogram)
       IN  IF r = "ok"
           THEN /\ spectrogram_path' = <<"spectrogram">>
                /\ pc' = "detect"
                /\ UNCHANGED result
           ELSE /\ result' = Err(r)
                /\ pc' = "done"
                /\ UNCHANGED spectrogram_path
    /\ UNCHANGED <<track, spectrogram, cluster_beats, beats, analysis_cache, bpm>>
    /\ UNCHANGED <<keyVars, svcVars>>

\* Step 4: detect_beats_from_spectrogram(&spectrogram)?
DetectBeatsFromSpectrogram ==
    /\ pc = "detect"
    /\ LET r == detect_beats_from_spectrogram(spectrogram, track.sample_rate)
       IN  /\ cluster_beats' = r.cluster_beats
           /\ beats' = r.beats
           /\ analysis_cache' = r.cache
    /\ pc' = "beats"
    /\ UNCHANGED <<track, spectrogram, spectrogram_path, bpm, result>>
    /\ UNCHANGED <<keyVars, svcVars>>

\* if beats.len() < 3: the visualization is written for 120 BPM and
\* Ok((120.0, ..)) is returned
FewBeats ==
    /\ pc = "beats"
    /\ Len(beats) < 3
    /\ result' = Ok(DEFAULT_BPM * BpmScale)
    /\ pc' = "done"
    /\ UNCHANGED <<track, spectrogram, spectrogram_path, cluster_beats, beats,
                   analysis_cache, bpm>>
    /\ UNCHANGED <<keyVars, svcVars>>

\* Step 5: calculate_bpm_histogram(&beats)?
CalculateBpmHistogram ==
    /\ pc = "beats"
    /\ Len(beats) >= 3
    /\ LET r == calculate_bpm_histogram(beats, track.sample_rate)
       IN  /\ bpm' = r
           /\ IF r.ok
              THEN pc' = "visualize" /\ UNCHANGED result
              ELSE pc' = "done" /\ result' = Err(r.err)
    /\ UNCHANGED <<track, spectrogram, spectrogram_path, cluster_beats, beats,
                   analysis_cache>>
    /\ UNCHANGED <<keyVars, svcVars>>

\* Step 6 and the range validation:
\* create_analysis_visualization(.., bpm)?, then Ok((final_bpm, ..))
VisualizeAndValidate ==
    /\ pc = "visualize"
    /\ result' = Ok(ValidateBpm(bpm.bpm))
    /\ pc' = "done"
    /\ UNCHANGED <<track, spectrogram, spectrogram_path, cluster_beats, beats,
                   analysis_cache, bpm>>
    /\ UNCHANGED <<keyVars, svcVars>>

Next ==
    \/ GenerateSpectrogram
    \/ SaveSpectrogramImage
    \/ DetectBeatsFromSpectrogram
    \/ FewBeats
    \/ CalculateBpmHistogram
    \/ VisualizeAndValidate

Spec == Init /\ [][Next]_vars

-----------------------------------------------------------------------------
(* key_analysis.rs: the key tables and detect_key_from_chroma              *)
(*                                                                         *)
(* A string is a sequence of characters.  A chroma value is in 1/100 of    *)
(* the profile's total (a normalised profile sums to 100), a template      *)
(* value and a score are in 1/100.  Tables are 0-based in the code:        *)
(* entry i of the code is entry i + 1 here.                                *)

KEY_NAMES ==
    << <<"C">>, <<"G">>, <<"D">>, <<"A">>, <<"E">>, <<"B">>,
       <<"F", "#">>, <<"C", "#">>, <<"F">>, <<"B", "b">>, <<"E", "b">>, <<"A", "b">>,
       <<"A", "m">>, <<"E", "m">>, <<"B", "m">>, <<"F", "#", "m">>,
       <<"C", "#", "m">>, <<"G", "#", "m">>, <<"D", "#", "m">>, <<"A", "#", "m">>,
       <<"D", "m">>, <<"G", "m">>, <<"C", "m">>, <<"F", "m">> >>

\* a table whose first minor entry repeats the code of A major
CamelotWithRepeatedCode ==
    << <<"8", "B">>, <<"3", "B">>, <<"1", "0", "B">>, <<"5", "B">>,
       <<"1", "2", "B">>, <<"7", "B">>, <<"2", "B">>, <<"9", "B">>,
       <<"1", "B">>, <<"6", "B">>, <<"1", "1", "B">>, <<"4", "B">>,
       <<"5", "B">>, <<"1", "2", "A">>, <<"7", "A">>, <<"2", "A">>,
       <<"9", "A">>, <<"4", "A">>, <<"1", "1", "A">>, <<"6", "A">>,
       <<"1", "A">>, <<"8", "A">>, <<"3", "A">>, <<"1", "0", "A">> >>

CAMELOT_NOTATION ==
    << <<"8", "B">>, <<"3", "B">>, <<"1", "0", "B">>, <<"5", "B">>,
       <<"1", "2", "B">>, <<"7", "B">>, <<"2", "B">>, <<"9", "B">>,
       <<"1", "B">>, <<"6", "B">>, <<"1", "1", "B">>, <<"4", "B">>,
       <<"5", "A">>, <<"1", "2", "A">>, <<"7", "A">>, <<"2", "A">>,
       <<"9", "A">>, <<"4", "A">>, <<"1", "1", "A">>, <<"6", "A">>,
       <<"1", "A">>, <<"8", "A">>, <<"3", "A">>, <<"1", "0", "A">> >>

CIRCLE_OF_FIFTHS_MAJOR == <<0, 7, 2, 9, 4, 11, 6, 1, 8, 3, 10, 5>>
CIRCLE_OF_FIFTHS_MINOR == <<9, 4, 11, 6, 1, 8, 3, 10, 5, 0, 7, 2>>

major_template == <<635, 223, 348, 233, 438, 409, 252, 519, 239, 366, 229, 288>>
minor_template == <<633, 268, 352, 538, 260, 353, 254, 475, 398, 269, 334, 317>>

\* correlation += chroma[i] * template[(i + root) % 12], i in 0..12
calculate_template_correlation(chroma, template, root) ==
    SumSeq([k \in 1..12 |-> chroma[k] * template[((k - 1 + root) % 12) + 1]])

\* one "for root in 0..12" loop: a root replaces the best only when its
\* score is strictly greater
RECURSIVE RootLoop(_, _, _, _, _)
RootLoop(chroma, template, is_major, root, b) ==
    IF root = 12 THEN b
    ELSE LET score == calculate_template_correlation(chroma, template, root)
         IN  RootLoop(chroma, template, is_major, root + 1,
                      IF score > b.best_score
                      THEN [best_score |-> score, best_key_index |-> root,
                            best_is_major |-> is_major]
                      ELSE b)

\* the locals after both loops, from best_score = 0.0, best_key_index = 0,
\* best_is_major = true
BestKey(chroma) ==
    RootLoop(chroma, minor_template, FALSE, 0,
             RootLoop(chroma, major_template, TRUE, 0,
                      [best_score |-> 0, best_key_index |-> 0, best_is_major |-> TRUE]))

\* table.iter().position(|&x| x == root).unwrap_or(0)
Position(table, root) ==
    IF \E k \in 1..Len(table) : table[k] = root
    THEN (CHOOSE k \in 1..Len(table) :
             table[k] = root /\ \A m \in 1..(k - 1) : table[m] # root) - 1
    ELSE 0

\* the score clamped without the division by ten
ConfidenceUndivided(best_score) == Max(Min(best_score \div 10, ConfidenceScale), 0)

\* (best_score / 10.0).min(1.0).max(0.0), in 1/1000
Confidence(best_score) == Max(Min(best_score \div 100, ConfidenceScale), 0)

\* the MusicalKey built from the locals
KeyOf(b) ==
    LET final_key_index ==
            IF b.best_is_major
            THEN Position(CIRCLE_OF_FIFTHS_MAJOR, b.best_key_index)
            ELSE Position(CIRCLE_OF_FIFTHS_MINOR, b.best_key_index) + 12
    IN  [key_name |-> KEY_NAMES[final_key_index + 1],
         camelot |-> CAMELOT_NOTATION[final_key_index + 1],
         confidence |-> Confidence(b.best_score),
         is_major |-> b.best_is_major,
         key_index |-> final_key_index]

detect_key_from_chroma(chroma) == KeyOf(BestKey(chroma))

-----------------------------------------------------------------------------
(* Key detection on a chroma profile                                       *)
(*                                                                         *)
(* The profiles are the normalised ones generate_chroma_profile returns:   *)
(* all zero, or the energy split over at most two pitch classes.           *)

Weights == {100, 75, 50}

\* w/100 of the energy at pitch class i, the rest at pitch class j
Profile(i, j, w) ==
    [k \in 1..12 |-> (IF k - 1 = i THEN w ELSE 0) + (IF k - 1 = j THEN 100 - w ELSE 0)]

ZeroProfile == [k \in 1..12 |-> 0]

ChromaProfiles ==
    {ZeroProfile} \cup {Profile(i, j, w) : i \in 0..11, j \in 0..11, w \in Weights}

PipeIdle ==
    /\ pc = "idle"
    /\ track = <<>>
    /\ spectrogram = <<>>
    /\ spectrogram_path = <<>>
    /\ cluster_beats = <<>>
    /\ beats = <<>>
    /\ analysis_cache = NoCache
    /\ bpm = NoBpm
    /\ result = Pending

KeyInit ==
    /\ kpc = "detect"
    /\ chroma_profile \in ChromaProfiles
    /\ best_key = <<>>
    /\ key = <<>>
    /\ PipeIdle
    /\ SvcIdle

\* Step 3 of analyze_key_blocking: detect_key_from_chroma(&chroma_profile)?
DetectKeyFromChroma ==
    /\ kpc = "detect"
    /\ best_key' = BestKey(chroma_profile)
    /\ key' = detect_key_from_chroma(chroma_profile)
    /\ kpc' = "done"
    /\ UNCHANGED chroma_profile
    /\ UNCHANGED <<pipeVars, svcVars>>

KeyNext == DetectKeyFromChroma

KeySpec == KeyInit /\ [][KeyNext]_vars

-----------------------------------------------------------------------------
(* Claims about the BPM pipeline (Spec)                                    *)

\* C1: the beats detect_beats_from_spectrogram returns are in strictly
\* increasing timestamp order and adjacent beats are at least 0.1 s apart.
C1_DebounceInvariant ==
    \A k \in 1..(Len(beats) - 1) :
        /\ beats[k].timestamp < beats[k + 1].timestamp
        /\ (beats[k + 1].timestamp - beats[k].timestamp) * MIN_INTERVAL_DEN
              >= track.sample_rate

\* C1 witness: detection returned several beats after the debounce dropped one.
C1_Witness ==
    /\ pc = "beats"
    /\ Len(beats) >= 2
    /\ Len(beats) < Len(cluster_beats)

\* the candidate frames of the spectrogram at threshold percentage pct
CandidatesAt(pct) ==
    LET fe == FrameEnergies(spectrogram, track.sample_rate)
    IN  CandidateFrames(fe, NumSections(Len(fe)), pct)

\* how often frame idx is a candidate (once per section whose threshold it clears)
TimesCandidate(cs, idx) == Cardinality({k \in 1..Len(cs) : cs[k].frame_idx = idx})

\* C2 as stated: on the same spectrogram, detection at percentage 0.95
\* returns no more beats than detection at 0.8.
C2_BeatCountMonotone ==
    pc = "beats" =>
        Len(DetectBeats(spectrogram, track.sample_rate, 95).beats)
            <= Len(DetectBeats(spectrogram, track.sample_rate, 80).beats)

\* C2 amended: on the same spectrogram, every frame is a candidate at
\* percentage 0.95 at most as often as at 0.8, so raising the percentage
\* never increases the number of candidate frames.
C2_CandidatesMonotone ==
    pc = "beats" =>
        LET c80 == CandidatesAt(80)
            c95 == CandidatesAt(95)
        IN  /\ Len(c95) <= Len(c80)
            /\ \A k \in 1..Len(c95) :
                  TimesCandidate(c95, c95[k].frame_idx)
                      <= TimesCandidate(c80, c95[k].frame_idx)

\* C2 witness: raising the percentage removed candidates but not all of them.
C2_Witness ==
    /\ pc = "beats"
    /\ Len(CandidatesAt(95)) > 0
    /\ Len(CandidatesAt(95)) < Len(CandidatesAt(80))

InBpmRange(b) == b >= MIN_VALID_BPM * BpmScale /\ b <= MAX_VALID_BPM * BpmScale

\* C7: every BPM analyze_bpm_spectrogram_blocking returns lies in [50, 250];
\* an estimate inside the range is returned unchanged, one outside it is
\* replaced by exactly 120.
C7_BpmPlausible ==
    result.status = "ok" =>
        /\ InBpmRange(result.bpm)
        /\ bpm.ok =>
              result.bpm = IF InBpmRange(bpm.bpm) THEN bpm.bpm ELSE DEFAULT_BPM * BpmScale

\* C7 witness: an estimate below 50 BPM was replaced by 120.
C7_Witness ==
    /\ result.status = "ok"
    /\ bpm.ok
    /\ bpm.bpm < MIN_VALID_BPM * BpmScale
    /\ result.bpm = DEFAULT_BPM * BpmScale

\* C8: for every decoded track on which beat detection yields fewer than
\* 3 beats, the BPM analysis returns Ok with BPM exactly 120.
C8_FewBeatsDefault ==
    (/\ pc = "done"
     /\ spectrogram # <<>>
     /\ Len(detect_beats_from_spectrogram(spectrogram, track.sample_rate).beats) < 3)
        => result = Ok(DEFAULT_BPM * BpmScale)

\* the frames of section j all have the same average energy
FlatSection(fe, j) ==
    \A k \in (SectionStart(j) + 1)..SectionEnd(j, Len(fe)) :
        fe[k].energy = fe[SectionStart(j) + 1].energy

\* C12: a section whose max energy equals its min energy contributes no
\* candidates; a spectrogram whose frames all have the same average energy
\* (a silent one in particular) gives zero beats; and no beat is made by
\* dividing by a zero threshold.
C12_FlatProfileNoBeats ==
    /\ pc = "detect" =>
          LET fe == FrameEnergies(spectrogram, track.sample_rate)
          IN  /\ \A j \in 1..NumSections(Len(fe)) :
                    FlatSection(fe, j) =>
                        SectionCandidates(fe, SectionStart(j) + 1, SectionEnd(j, Len(fe)),
                                          AdaptiveThreshold(fe, j, ADAPTIVE_THRESHOLD_PERCENTAGE))
                            = <<>>
              /\ (\A k \in 1..Len(fe) : fe[k].energy = fe[1].energy) =>
                    detect_beats_from_spectrogram(spectrogram, track.sample_rate).beats = <<>>
    /\ pc = "beats" =>
          LET fe == analysis_cache.frame_energies
          IN  /\ (\A k \in 1..Len(fe) : fe[k].energy = fe[1].energy) =>
                    (beats = <<>> /\ cluster_beats = <<>>)
              /\ \A g \in 1..Len(analysis_cache.energy_groups) :
                    \A k \in 1..Len(analysis_cache.energy_groups[g]) :
                        analysis_cache.energy_groups[g][k].threshold > 0

\* C12 witness: beat detection ran on a spectrogram of many frames that
\* all have the same, non-zero, average energy and returned no beat.
C12_Witness ==
    /\ pc = "beats"
    /\ Len(spectrogram) > SECTION_SIZE \div 2
    /\ \A k \in 1..Len(analysis_cache.frame_energies) :
          /\ analysis_cache.frame_energies[k].energy = analysis_cache.frame_energies[1].energy
          /\ analysis_cache.frame_energies[k].energy > 0
    /\ beats = <<>>

\* C16: generate_spectrogram fails when fewer than window_size / 2 samples
\* are available, and with at least window_size / 2 samples whose
\* transforms succeed it returns a spectrogram of at least one frame.
C16_InsufficientSamples ==
    pc # "generate" =>
        /\ track.samples_len < SPECTROGRAM_WINDOW_SIZE \div 2 =>
              /\ spectrogram = <<>>
              /\ result = Err("Failed to generate spectrogram data")
        /\ (/\ track.samples_len >= SPECTROGRAM_WINDOW_SIZE \div 2
            /\ \A w \in 1..Len(track.spectra) : track.spectra[w] # FftErr) =>
              /\ Len(spectrogram) >= 1
              /\ result # Err("Failed to generate spectrogram data")

\* C16 witness: one sample short of half a window, and the call failed.
C16_Witness ==
    /\ pc = "done"
    /\ track.samples_len = SPECTROGRAM_WINDOW_SIZE \div 2 - 1
    /\ result = Err("Failed to generate spectrogram data")

\* the frame indices of the candidates, read from the groups of the cache
CandidateIndices ==
    UNION {{analysis_cache.energy_groups[g][k].frame_idx :
               k \in 1..Len(analysis_cache.energy_groups[g])} :
           g \in 1..Len(analysis_cache.energy_groups)}

\* min_energy and max_energy of the section that starts at frame start
SectionRange(fe, start) ==
    LET es == {fe[k].energy : k \in (start + 1)..Min(start + SECTION_SIZE, Len(fe))}
    IN  [lo |-> CHOOSE e \in es : \A o \in es : e <= o,
         hi |-> CHOOSE e \in es : \A o \in es : e >= o]

\* the frames of the section starting at frame start whose energy strictly
\* exceeds min + (max - min) * 0.8 of the section
ClearingFrames(fe, start) ==
    LET r == SectionRange(fe, start)
        lo == r.lo
        span == ADAPTIVE_THRESHOLD_PERCENTAGE * (r.hi - r.lo)
    IN  {idx \in start..(Min(start + SECTION_SIZE, Len(fe)) - 1) :
            100 * (fe[idx + 1].energy - lo) > span}

C20_ClustersByGap ==
    pc = "beats" =>
        LET groups == analysis_cache.energy_groups
            sorted == SortByTimestamp(CandidatesAt(ADAPTIVE_THRESHOLD_PERCENTAGE))
            offset == [g \in 1..Len(groups) |->
                          SumSeq([h \in 1..(g - 1) |-> Len(groups[h])])]
        IN  /\ SumSeq([g \in 1..Len(groups) |-> Len(groups[g])]) = Len(sorted)
            /\ \A g \in 1..Len(groups) :
                  /\ groups[g] # <<>>
                  /\ \A k \in 1..Len(groups[g]) : groups[g][k] = sorted[offset[g] + k]
                  /\ \A k \in 1..(Len(groups[g]) - 1) :
                        /\ groups[g][k].timestamp <= groups[g][k + 1].timestamp
                        /\ (groups[g][k + 1].timestamp - groups[g][k].timestamp)
                               * MAX_GROUP_GAP_DEN <= track.sample_rate
            /\ \A g \in 1..(Len(groups) - 1) :
                  (groups[g + 1][1].timestamp - groups[g][Len(groups[g])].timestamp)
                      * MAX_GROUP_GAP_DEN > track.sample_rate

\* C20 witness: several clusters, one of them spanning several frames.
C20_Witness ==
    /\ pc = "beats"
    /\ Len(analysis_cache.energy_groups) >= 2
    /\ \E g \in 1..Len(analysis_cache.energy_groups) :
          analysis_cache.energy_groups[g][1].timestamp
              < analysis_cache.energy_groups[g][Len(analysis_cache.energy_groups[g])].timestamp

\* the beat is the one the claim describes for the cluster: at a frame
\* nearest to (first_ts + last_ts) / 2, the earliest of the nearest
\* frames, with confidence min(energy / threshold, 2.0)
BeatOfCluster(beat, group) ==
    LET mid2 == group[1].timestamp + group[Len(group)].timestamp
    IN  \E k \in 1..Len(group) :
            /\ beat.timestamp = group[k].timestamp
            /\ beat.energy = group[k].energy
            /\ \A m \in 1..Len(group) :
                  /\ Abs(2 * group[k].timestamp - mid2) <= Abs(2 * group[m].timestamp - mid2)
                  /\ Abs(2 * group[k].timestamp - mid2) = Abs(2 * group[m].timestamp - mid2)
                        => group[k].frame_idx <= group[m].frame_idx
            /\ beat.confidence =
                  IF group[k].energy >= 2 * group[k].threshold THEN 2 * ConfidenceScale
                  ELSE (group[k].energy * ConfidenceScale) \div group[k].threshold

\* C21: before debouncing each cluster yields exactly one beat, at the
\* cluster frame nearest to (first_ts + last_ts) / 2, the earliest frame
\* on a tie, with confidence min(energy / threshold, 2.0).
C21_OneBeatPerCluster ==
    pc = "beats" =>
        /\ Len(cluster_beats) = Len(analysis_cache.energy_groups)
        /\ \A g \in 1..Len(cluster_beats) :
              BeatOfCluster(cluster_beats[g], analysis_cache.energy_groups[g])

\* C21 witness: a cluster of two frames, both as near to its middle, gave
\* its beat at the first of them.
C21_Witness ==
    /\ pc = "beats"
    /\ \E g \in 1..Len(cluster_beats) :
          LET group == analysis_cache.energy_groups[g]
          IN  /\ Len(group) = 2
              /\ group[1].frame_idx < group[2].frame_idx
              /\ cluster_beats[g].timestamp = group[1].timestamp

\* the (frame_idx, threshold) pairs of the cached clusters
CachedDecisions ==
    UNION {{<<analysis_cache.energy_groups[g][k].frame_idx,
              analysis_cache.energy_groups[g][k].threshold>> :
               k \in 1..Len(analysis_cache.energy_groups[g])} :
           g \in 1..Len(analysis_cache.energy_groups)}

\* the frames of a cached section whose cached energy exceeds its cached
\* threshold, each with that threshold
SectionDecisions(fe, sec) ==
    {<<idx, sec.threshold>> :
        idx \in {i \in sec.section_start..(sec.section_end - 1) :
                    fe[i + 1].energy > sec.threshold}}

\* the timestamps of the frames of a cluster
ClusterTimestamps(group) == {group[k].timestamp : k \in 1..Len(group)}

\* C26: the cache records the decisions that produced the beats: one
\* (start, end, threshold) entry per section, whose threshold is the one
\* applied to the frames of that section, and the clusters the beats were
\* taken from: every returned beat is at the timestamp of a frame of a
\* cached cluster and no cached cluster gives more than one returned beat.
C26_CacheRecordsDecisions ==
    pc = "beats" =>
        LET fe == analysis_cache.frame_energies
            secs == analysis_cache.section_thresholds
            groups == analysis_cache.energy_groups
            half == SECTION_SIZE \div 2
        IN  /\ Len(secs) = (Len(fe) + half - 1) \div half
            /\ \A j \in 1..Len(secs) :
                  /\ secs[j].section_start = (j - 1) * half
                  /\ secs[j].section_end = Min(secs[j].section_start + SECTION_SIZE, Len(fe))
            /\ CachedDecisions = UNION {SectionDecisions(fe, secs[j]) : j \in 1..Len(secs)}
            /\ \A b \in 1..Len(beats) :
                  \E g \in 1..Len(groups) : beats[b].timestamp \in ClusterTimestamps(groups[g])
            /\ \A g \in 1..Len(groups) :
                  Cardinality({b \in 1..Len(beats) :
                                  beats[b].timestamp \in ClusterTimestamps(groups[g])}) <= 1

\* C26 witness: several sections and clusters are cached, and the beats
\* returned come from some of the clusters only.
C26_Witness ==
    /\ pc = "beats"
    /\ Len(analysis_cache.section_thresholds) >= 2
    /\ Len(beats) >= 2
    /\ Len(beats) < Len(analysis_cache.energy_groups)

\* the number of candidates in the cached clusters
NumCandidates ==
    SumSeq([g \in 1..Len(analysis_cache.energy_groups) |->
               Len(analysis_cache.energy_groups[g])])

\* C27: each frame index appears at most once in the candidate list, and
\* so at most once across the cached clusters, also when the frame lies in
\* two overlapping sections and exceeds both thresholds.
C27_CandidatesDistinct ==
    pc = "beats" => NumCandidates = Cardinality(CandidateIndices)

\* C24: the windows start at 0, hop, 2 * hop, ...; a trailing window that
\* would run past the end of the buffer by more than half its length is
\* dropped, and no kept window is zero-padded.
C24_NoZeroPadding ==
    pc # "generate" =>
        LET kept == {w \in 1..(track.samples_len \div SPECTROGRAM_HOP_SIZE + 1) :
                        /\ (w - 1) * SPECTROGRAM_HOP_SIZE < track.samples_len
                        /\ 2 * ((w - 1) * SPECTROGRAM_HOP_SIZE + SPECTROGRAM_WINDOW_SIZE
                                   - track.samples_len) <= SPECTROGRAM_WINDOW_SIZE}
        IN  /\ kept = 1..NumWindows(track.samples_len)
            /\ Len(spectrogram) <= Cardinality(kept)
            /\ \A w \in kept : ZeroPadding(w, track.samples_len) = 0

-----------------------------------------------------------------------------
(* The pipeline on tracks with windows whose transform fails (SkipSpec)    *)
(*                                                                         *)
(* samples_fft_to_spectrum refuses a window that holds a NaN or an         *)
(* infinite sample; a bad stretch of samples fails a run of consecutive    *)
(* windows.                                                                *)

\* the windows (from 0) whose transform fails
FailedWindows ==
    {{}, 0..3, 20..23, (MaxFrames - 4)..(MaxFrames - 1), 0..(MaxFrames - 1)}

SkipPulseSets ==
    {<<>>, (10 :> 1), (0 :> 1) @@ (10 :> 1) @@ (48 :> 1), (48 :> 3)}

SpectraWithFailures(n, floor, pulses, failed) ==
    [w \in 1..n |-> IF w - 1 \in failed THEN FftErr
                    ELSE FrameOf(LevelAt(w - 1, floor, pulses))]

SkipInit ==
    /\ pc = "generate"
    /\ \E sr \in SampleRates, n \in SampleCounts, floor \in Floors,
          pulses \in SkipPulseSets, failed \in FailedWindows :
          track = [sample_rate |-> sr, samples_len |-> n,
                   spectra |-> SpectraWithFailures(NumWindows(n), floor, pulses, failed)]
    /\ spectrogram = <<>>
    /\ spectrogram_path = <<>>
    /\ cluster_beats = <<>>
    /\ beats = <<>>
    /\ analysis_cache = NoCache
    /\ bpm = NoBpm
    /\ result = Pending
    /\ KeyIdle
    /\ SvcIdle

SkipSpec == SkipInit /\ [][Next]_vars

\* the windows of the track whose transform succeeded, in order
SucceededWindows ==
    SelectSeq([w \in 1..NumWindows(track.samples_len) |-> w],
              LAMBDA w : track.spectra[w] # FftErr)

\* C25 as stated: a transform failure is never fatal to
\* generate_spectrogram.
C25_FailureNeverFatal ==
    (/\ pc # "generate"
     /\ \E w \in 1..NumWindows(track.samples_len) : track.spectra[w] = FftErr)
        => result # Err("Failed to generate spectrogram data")

\* C25 amended: a window whose transform fails is skipped and processing
\* continues with the next window, so the spectrogram holds the frames of
\* the windows that succeeded, in order; generate_spectrogram fails
\* exactly when no window succeeded.
C25_FailedWindowsSkipped ==
    pc # "generate" =>
        LET ws == SucceededWindows
        IN  /\ ws = <<>> <=> result = Err("Failed to generate spectrogram data")
            /\ Len(spectrogram) = Len(ws)
            /\ \A i \in 1..Len(ws) : spectrogram[i] = track.spectra[ws[i]]

\* C25 witness: windows in the middle of the track failed and the frames
\* of the windows after them are in the spectrogram.
C25_Witness ==
    /\ pc = "save_image"
    /\ Len(track.spectra) = MaxFrames
    /\ track.spectra[21] = FftErr
    /\ track.spectra[1] # FftErr
    /\ Len(spectrogram) = NumWindows(track.samples_len) - 4
    /\ spectrogram[Len(spectrogram)] = track.spectra[NumWindows(track.samples_len)]

\* C29: every beat's timestamp is the start of the audio window whose
\* frame produced it (timestamps and window starts in samples), also when
\* earlier windows were skipped because their transform failed.
C29_TimestampIsWindowStart ==
    pc = "beats" =>
        LET ws == SucceededWindows
            groups == analysis_cache.energy_groups
        IN  /\ \A g \in 1..Len(groups) : \A k \in 1..Len(groups[g]) :
                  groups[g][k].timestamp
                      = (ws[groups[g][k].frame_idx + 1] - 1) * SPECTROGRAM_HOP_SIZE
            /\ \A b \in 1..Len(beats) :
                  \E g \in 1..Len(groups) : \E k \in 1..Len(groups[g]) :
                      /\ beats[b].timestamp = groups[g][k].timestamp
                      /\ beats[b].timestamp
                            = (ws[groups[g][k].frame_idx + 1] - 1) * SPECTROGRAM_HOP_SIZE

-----------------------------------------------------------------------------
(* Claims about key detection (KeySpec)                                    *)

Last(s) == s[Len(s)]

\* C3: a chroma profile with all its energy at index 9 (pitch class A) is
\* detected as A (key_index 3) or Am (key_index 12), with confidence > 0.
C3_PureToneKeyIsA ==
    (kpc = "done" /\ chroma_profile = Profile(9, 9, 100)) =>
        /\ key.key_index \in {3, 12}
        /\ key.key_name \in {<<"A">>, <<"A", "m">>}
        /\ key.confidence > 0

\* score(r, mode) of the claim: the template rotated so that its index 0
\* is aligned with root r
RotatedScore(chroma, template, r) ==
    SumSeq([k \in 1..12 |-> chroma[k] * template[((k - 1 - r + 12) % 12) + 1]])

TemplateOf(is_major) == IF is_major THEN major_template ELSE minor_template

\* C4: the key returned is the (root, mode) whose score
\* sum_i chroma[i] * template[mode][(i - r) mod 12] is the maximum over
\* all 24 pairs, and best_score is that score.
C4_RotatedTemplateArgmax ==
    kpc = "done" =>
        LET won == RotatedScore(chroma_profile, TemplateOf(best_key.best_is_major),
                                best_key.best_key_index)
        IN  /\ best_key.best_score = won
            /\ \A r \in 0..11, m \in BOOLEAN :
                  RotatedScore(chroma_profile, TemplateOf(m), r) <= won

\* the names of the twelve pitch classes, C = 0
TonicNames ==
    << {<<"C">>}, {<<"C", "#">>, <<"D", "b">>}, {<<"D">>}, {<<"D", "#">>, <<"E", "b">>},
       {<<"E">>}, {<<"F">>}, {<<"F", "#">>, <<"G", "b">>}, {<<"G">>},
       {<<"G", "#">>, <<"A", "b">>}, {<<"A">>}, {<<"A", "#">>, <<"B", "b">>}, {<<"B">>} >>

\* C5: the returned key describes the winning (root, mode): key_index is
\* in 0..11 iff major, it is the root's position in the circle of fifths
\* (plus 12 for minor), and key_name names the key whose tonic is the root.
C5_KeyDescribesRoot ==
    kpc = "done" =>
        /\ key.is_major = best_key.best_is_major
        /\ key.is_major <=> key.key_index \in 0..11
        /\ key.key_index =
              IF key.is_major
              THEN Position(CIRCLE_OF_FIFTHS_MAJOR, best_key.best_key_index)
              ELSE Position(CIRCLE_OF_FIFTHS_MINOR, best_key.best_key_index) + 12
        /\ key.key_name \in
              {n \o (IF key.is_major THEN <<>> ELSE <<"m">>) :
                  n \in TonicNames[best_key.best_key_index + 1]}

\* C6: entries 0..11 of the tables are major (no "m" suffix, Camelot code
\* ending in "B"), entries 12..23 are minor ("m" suffix, code ending in
\* "A"), the 24 Camelot codes are pairwise distinct, and a returned key
\* carries the name and the code of its key_index.
C6_KeyTableConsistency ==
    /\ Len(KEY_NAMES) = 24 /\ Len(CAMELOT_NOTATION) = 24
    /\ \A i \in 0..11 :
          /\ Last(KEY_NAMES[i + 1]) # "m"
          /\ Last(CAMELOT_NOTATION[i + 1]) = "B"
    /\ \A i \in 12..23 :
          /\ Last(KEY_NAMES[i + 1]) = "m"
          /\ Last(CAMELOT_NOTATION[i + 1]) = "A"
    /\ \A i, j \in 0..23 :
          i # j => CAMELOT_NOTATION[i + 1] # CAMELOT_NOTATION[j + 1]
    /\ kpc = "done" =>
          /\ key.key_name = KEY_NAMES[key.key_index + 1]
          /\ key.camelot = CAMELOT_NOTATION[key.key_index + 1]
          /\ Last(key.camelot) = (IF key.is_major THEN "B" ELSE "A")

\* C6 witness: a minor key was returned, with an "m" name and an "A" code.
C6_Witness ==
    /\ kpc = "done"
    /\ key.key_index \in 12..23
    /\ Last(key.key_name) = "m"
    /\ Last(key.camelot) = "A"

\* C15: detect_key_from_chroma returns a key for every profile; its
\* confidence is best_score / 10 clamped to [0, 1] (scores in 1/10000,
\* confidence in 1/1000), and the all-zero profile gives confidence 0.
C15_ConfidenceClamped ==
    kpc = "done" =>
        /\ key # <<>>
        /\ key.key_index \in 0..23
        /\ key.confidence \in 0..ConfidenceScale
        /\ key.confidence =
              IF best_key.best_score <= 0 THEN 0
              ELSE IF best_key.best_score >= 100 * ConfidenceScale THEN ConfidenceScale
              ELSE best_key.best_score \div 100
        /\ chroma_profile = ZeroProfile => key.confidence = 0

\* C15 witness: the all-zero profile was given a key, with confidence 0.
C15_Witness ==
    /\ kpc = "done"
    /\ chroma_profile = ZeroProfile
    /\ best_key.best_score = 0
    /\ key.confidence = 0

\* the number of a Camelot code: the code without its letter
CamelotNumber(code) == SubSeq(code, 1, Len(code) - 1)

\* C30: for every i in 0..11 the major key at table index i and the minor
\* key at index i + 12 carry the same Camelot number, and so does a
\* returned key with the entry of its relative key.
C30_RelativeKeysShareNumber ==
    /\ \A i \in 0..11 :
          CamelotNumber(CAMELOT_NOTATION[i + 1]) = CamelotNumber(CAMELOT_NOTATION[i + 13])
    /\ kpc = "done" =>
          CamelotNumber(key.camelot)
              = CamelotNumber(CAMELOT_NOTATION[((key.key_index + 12) % 24) + 1])

-----------------------------------------------------------------------------
(* The service calls: analyze_bpm_with_spectrogram, analyze_key,           *)
(* analyze_bpm and the three remote wrappers around them.  Calls run       *)
(* concurrently (async handlers, spawn_blocking threads) and share the     *)
(* file system: std::env::temp_dir() and ./cache/spectrograms.             *)

NumCalls == 2     \* concurrent calls

\* The tracks behind the files and URLs of the model
\*   1: silence          2: a steady floor, no beat
\*   3: three pulses     4: not an audio file
ServiceTracks ==
    << [decodable |-> TRUE, sample_rate |-> 44100,
        samples_len |-> SPECTROGRAM_WINDOW_SIZE \div 2,
        spectra |-> SpectraOf(1, 0, <<>>)],
       [decodable |-> TRUE, sample_rate |-> 44100,
        samples_len |-> SPECTROGRAM_WINDOW_SIZE,
        spectra |-> SpectraOf(NumWindows(SPECTROGRAM_WINDOW_SIZE), 10, <<>>)],
       [decodable |-> TRUE, sample_rate |-> 8000,
        samples_len |-> SPECTROGRAM_WINDOW_SIZE \div 2 + 59 * SPECTROGRAM_HOP_SIZE,
        spectra |-> SpectraOf(60, 0, (0 :> 1) @@ (10 :> 1) @@ (48 :> 1))],
       [decodable |-> FALSE, sample_rate |-> 0, samples_len |-> 0, spectra |-> <<>>] >>

\* file paths: directory, file stem, and the uuid of a temporary file
LocalPath(dir, stem) == [dir |-> dir, stem |-> stem, uuid |-> 0]
TempPath(prefix, c) == [dir |-> "tmp", stem |-> prefix, uuid |-> c]

\* the audio files on disk, and a path with no file
LocalFiles ==
    (LocalPath("a", "song") :> 3) @@ (LocalPath("b", "song") :> 2)
        @@ (LocalPath("a", "quiet") :> 1)
LocalPaths == DOMAIN LocalFiles \cup {LocalPath("a", "gone")}

\* what a URL serves
Urls == ("u1" :> 3) @@ ("u2" :> 4)

LocalKinds == {"analyze_bpm_with_spectrogram", "analyze_key"}
RemoteKinds == {"analyze_remote_file_spectrogram", "analyze_remote_file_key",
                "analyze_remote_file"}

\* format!("musestruct_<prefix>_{}.tmp", uuid::Uuid::new_v4())
TempPrefix(kind) ==
    CASE kind = "analyze_remote_file_spectrogram" -> "musestruct_spectrogram"
      [] kind = "analyze_remote_file_key" -> "musestruct_key"
      [] kind = "analyze_remote_file" -> "musestruct_analysis"

\* the first step of the analysis a call runs on its file
AnalysisOf(kind) ==
    CASE kind \in {"analyze_bpm_with_spectrogram", "analyze_remote_file_spectrogram"} -> "image"
      [] kind \in {"analyze_key", "analyze_remote_file_key"} -> "key"
      [] kind = "analyze_remote_file" -> "bpm"

NoFile == [dir |-> "", stem |-> "", uuid |-> 0]
NoOutcome == [status |-> "pending", bpm |-> 0, err |-> ""]
IdleCall == [kind |-> "", url |-> "", file |-> NoFile, pc |-> "idle", track |-> 0,
             created |-> FALSE, saved |-> FALSE, outcome |-> NoOutcome,
             result |-> NoOutcome]

\* format!("./cache/spectrograms/spectrogram_{}.png", file_stem)
SpectrogramImagePath(file) ==
    [kind |-> "spectrogram", stem |-> file.stem, uuid |-> file.uuid, bpm |-> 0]

\* format!("./cache/spectrograms/analysis_{}_{}bpm.png", file_stem, detected_bpm as u32)
VisualizationPath(file, detected_bpm) ==
    [kind |-> "analysis", stem |-> file.stem, uuid |-> file.uuid,
     bpm |-> detected_bpm \div BpmScale]

WriteFile(files, path, content) == (path :> content) @@ files

SvcInit ==
    /\ calls = [c \in 1..NumCalls |-> IdleCall]
    /\ temp_files = {}
    /\ cache_files = <<>>
    /\ PipeIdle
    /\ KeyIdle

\* a local analysis is called with a file path
StartLocal(c) ==
    /\ calls[c].pc = "idle"
    /\ \E kind \in LocalKinds, path \in LocalPaths :
          calls' = [calls EXCEPT ![c] =
                       [@ EXCEPT !.kind = kind, !.file = path, !.pc = "read"]]
    /\ UNCHANGED <<temp_files, cache_files>>
    /\ UNCHANGED <<pipeVars, keyVars>>

\* a remote analysis is called with a URL: the temporary path is made up
\* (no file yet) and the download is started
StartRemote(c) ==
    /\ calls[c].pc = "idle"
    /\ \E kind \in RemoteKinds, url \in DOMAIN Urls :
          calls' = [calls EXCEPT ![c] =
                       [@ EXCEPT !.kind = kind, !.url = url,
                                 !.file = TempPath(TempPrefix(kind), c),
                                 !.pc = "download"]]
    /\ UNCHANGED <<temp_files, cache_files>>
    /\ UNCHANGED <<pipeVars, keyVars>>

\* reqwest::get(url), the status check and response.bytes(): each failure
\* returns Err before anything is written
Download(c) ==
    /\ calls[c].pc = "download"
    /\ \E ok \in BOOLEAN :
          calls' = [calls EXCEPT ![c] =
                       IF ok
                       THEN [@ EXCEPT !.pc = "write", !.track = Urls[calls[c].url]]
                       ELSE [@ EXCEPT !.pc = "returned",
                                      !.result = Err("Failed to download file")]]
    /\ UNCHANGED <<temp_files, cache_files>>
    /\ UNCHANGED <<pipeVars, keyVars>>

\* tokio::fs::write(&temp_file, bytes).await?  The write succeeds, or it
\* fails before the file exists, or it fails after the file was created
\* (a partial file); a failure returns at once.
WriteTempFile(c) ==
    /\ calls[c].pc = "write"
    /\ \E outcome \in {"ok", "not_created", "partial"} :
          /\ temp_files' =
                IF outcome = "not_created" THEN temp_files
                ELSE temp_files \cup {[file |-> calls[c].file, track |-> calls[c].track,
                                       complete |-> outcome = "ok"]}
          /\ calls' = [calls EXCEPT ![c] =
                          IF outcome = "ok"
                          THEN [@ EXCEPT !.pc = "read", !.created = TRUE]
                          ELSE [@ EXCEPT !.pc = "returned",
                                         !.created = (outcome = "partial"),
                                         !.result = Err("write failed")]]
    /\ UNCHANGED cache_files
    /\ UNCHANGED <<pipeVars, keyVars>>

\* the track of the file at a path, 0 when no file is there
TrackAt(path) ==
    IF path \in DOMAIN LocalFiles THEN LocalFiles[path]
    ELSE IF \E f \in temp_files : f.file = path
         THEN (CHOOSE f \in temp_files : f.file = path).track
         ELSE 0

\* the analysis of a call has ended with outcome r: a local call returns
\* it, a remote wrapper goes on to remove its temporary file
Finish(call, r) ==
    IF call.kind \in RemoteKinds
    THEN [call EXCEPT !.pc = "cleanup", !.outcome = r]
    ELSE [call EXCEPT !.pc = "returned", !.result = r]

\* the start of the blocking analysis: Path::exists and read_audio_file
ReadAudioFile(c) ==
    /\ calls[c].pc = "read"
    /\ LET t == TrackAt(calls[c].file)
       IN  calls' = [calls EXCEPT ![c] =
                        IF t = 0 THEN Finish(@, Err("Audio file not found"))
                        ELSE IF ~ServiceTracks[t].decodable
                        THEN Finish(@, Err("Failed to read audio file"))
                        ELSE [@ EXCEPT !.pc = AnalysisOf(calls[c].kind), !.track = t]]
    /\ UNCHANGED <<temp_files, cache_files>>
    /\ UNCHANGED <<pipeVars, keyVars>>

\* analyze_bpm_spectrogram_blocking, steps 2 and 3: generate_spectrogram
\* and save_spectrogram_image, which writes spectrogram_<stem>.png
SaveImage(c) ==
    /\ calls[c].pc = "image"
    /\ LET t == ServiceTracks[calls[c].track]
           g == generate_spectrogram(t)
           saved == IF g.ok THEN save_spectrogram_image(g.data) ELSE "no_spectrogram"
       IN  IF saved = "ok"
           THEN /\ cache_files' = WriteFile(cache_files, SpectrogramImagePath(calls[c].file),
                                            [shows |-> calls[c].track])
                /\ calls' = [calls EXCEPT ![c] = [@ EXCEPT !.pc = "visualize", !.saved = TRUE]]
           ELSE /\ calls' = [calls EXCEPT ![c] = Finish(@, Err(saved))]
                /\ UNCHANGED cache_files
    /\ UNCHANGED temp_files
    /\ UNCHANGED <<pipeVars, keyVars>>

\* analyze_bpm_spectrogram_blocking, steps 4 to 6: beats, BPM and
\* create_analysis_visualization, which writes analysis_<stem>_<bpm>bpm.png
Visualize(c) ==
    /\ calls[c].pc = "visualize"
    /\ LET t == ServiceTracks[calls[c].track]
           bs == detect_beats_from_spectrogram(generate_spectrogram(t).data,
                                               t.sample_rate).beats
           est == calculate_bpm_histogram(bs, t.sample_rate)
           detected_bpm == IF Len(bs) < 3 THEN DEFAULT_BPM * BpmScale ELSE est.bpm
       IN  IF Len(bs) >= 3 /\ ~est.ok
           THEN /\ calls' = [calls EXCEPT ![c] = Finish(@, Err(est.err))]
                /\ UNCHANGED cache_files
           ELSE /\ cache_files' = WriteFile(cache_files,
                                            VisualizationPath(calls[c].file, detected_bpm),
                                            [shows |-> calls[c].track])
                /\ calls' = [calls EXCEPT ![c] = Finish(@, Ok(ValidateBpm(detected_bpm)))]
    /\ UNCHANGED temp_files
    /\ UNCHANGED <<pipeVars, keyVars>>

\* analyze_key_blocking after the read: generate_chroma_profile and
\* detect_key_from_chroma return Ok for every sample vector and write no
\* file (the key itself is the subject of KeySpec, not of these calls)
AnalyzeKey(c) ==
    /\ calls[c].pc = "key"
    /\ calls' = [calls EXCEPT ![c] = Finish(@, Ok(0))]
    /\ UNCHANGED <<temp_files, cache_files>>
    /\ UNCHANGED <<pipeVars, keyVars>>

\* analyze_bpm_blocking (audio_analysis.rs) after the read: it writes no
\* file and returns a BPM, or the error of its beat detection or BPM
\* calculation (the estimate itself is not modelled here)
AnalyzeBpm(c) ==
    /\ calls[c].pc = "bpm"
    /\ \E r \in {Ok(DEFAULT_BPM * BpmScale), Err("analysis failed")} :
          calls' = [calls EXCEPT ![c] = Finish(@, r)]
    /\ UNCHANGED <<temp_files, cache_files>>
    /\ UNCHANGED <<pipeVars, keyVars>>

\* tokio::fs::remove_file(&temp_file): a failure is logged only; then the
\* result of the analysis is returned
CleanUp(c) ==
    /\ calls[c].pc = "cleanup"
    /\ \E removed \in BOOLEAN :
          temp_files' = IF removed
                        THEN {f \in temp_files : f.file # calls[c].file}
                        ELSE temp_files
    /\ calls' = [calls EXCEPT ![c] = [@ EXCEPT !.pc = "returned", !.result = calls[c].outcome]]
    /\ UNCHANGED cache_files
    /\ UNCHANGED <<pipeVars, keyVars>>

SvcNext ==
    \E c \in 1..NumCalls :
        \/ StartLocal(c)
        \/ StartRemote(c)
        \/ Download(c)
        \/ WriteTempFile(c)
        \/ ReadAudioFile(c)
        \/ SaveImage(c)
        \/ Visualize(c)
        \/ AnalyzeKey(c)
        \/ AnalyzeBpm(c)
        \/ CleanUp(c)

SvcSpec == SvcInit /\ [][SvcNext]_vars

-----------------------------------------------------------------------------
(* Claims about the service calls (SvcSpec)                                *)

\* C9: in the remote analyses the temporary file is released on every
\* exit path: once a call that created its temporary file has returned,
\* the file is gone.
C9_TempFileReleased ==
    \A c \in DOMAIN calls :
        (calls[c].pc = "returned" /\ calls[c].created) =>
            ~ \E f \in temp_files : f.file = calls[c].file

\* C10: concurrent analyses share no mutable state: the spectrogram image
\* an analysis has saved shows its own track, whatever the other call does.
C10_AnalysesIsolated ==
    \A c \in DOMAIN calls :
        calls[c].saved =>
            cache_files[SpectrogramImagePath(calls[c].file)].shows = calls[c].track

\* the call has run generate_spectrogram, detect_beats and the BPM
\* estimate on the samples of its file, and has returned
RanChain(call) ==
    /\ call.pc = "returned"
    /\ AnalysisOf(call.kind) = "image"
    /\ call.track # 0
    /\ call.result.err \notin {"Failed to download file", "write failed",
                               "Audio file not found", "Failed to read audio file"}

-----------------------------------------------------------------------------
(* calculate_bpm_histogram on a list of beats (BpmSpec)                    *)
(*                                                                         *)
(* The beats are at frames of BeatFrames, in increasing order; a beat's    *)
(* timestamp is its frame times the hop size, as detect_beats produces it. *)

MaxBeats == 5     \* beats in a list
BeatFrames == {0, 5, 8, 16, 40, 50, 55, 80, 83, 200}

\* at 6400 Hz five frames are 0.2 s and fifty frames are 2.0 s
BeatSampleRates == SampleRates \cup {6400}

\* the elements of a set of numbers in increasing order
SortedSeq(S) ==
    [k \in 1..Cardinality(S) |->
        CHOOSE x \in S : Cardinality({y \in S : y < x}) = k - 1]

BeatAt(frame) ==
    [timestamp |-> frame * SPECTROGRAM_HOP_SIZE, energy |-> 100 * EnergyScale,
     dominant_freq |-> LOW_FREQ_CUTOFF * 1000, confidence |-> ConfidenceScale]

BeatLists ==
    {[k \in 1..Cardinality(S) |-> BeatAt(SortedSeq(S)[k])] :
        S \in {T \in SUBSET BeatFrames : Cardinality(T) <= MaxBeats}}

BpmInit ==
    /\ pc = "estimate"
    /\ \E sr \in BeatSampleRates :
          track = [sample_rate |-> sr, samples_len |-> 0, spectra |-> <<>>]
    /\ beats \in BeatLists
    /\ spectrogram = <<>>
    /\ spectrogram_path = <<>>
    /\ cluster_beats = <<>>
    /\ analysis_cache = NoCache
    /\ bpm = NoBpm
    /\ result = Pending
    /\ KeyIdle
    /\ SvcIdle

\* calculate_bpm_histogram(&beats)
EstimateBpm ==
    /\ pc = "estimate"
    /\ bpm' = calculate_bpm_histogram(beats, track.sample_rate)
    /\ pc' = "done"
    /\ UNCHANGED <<track, spectrogram, spectrogram_path, cluster_beats, beats,
                   analysis_cache, result>>
    /\ UNCHANGED <<keyVars, svcVars>>

BpmNext == EstimateBpm

BpmSpec == BpmInit /\ [][BpmNext]_vars

\* the locals of calculate_bpm_histogram once the histogram is scored
ScoredPeaks(bs, sample_rate) ==
    LET filtered_intervals == FilterIntervals(Intervals(bs), sample_rate)
        peak_scores == SortByScore(PeakScores(Histogram(filtered_intervals, sample_rate),
                                              MinOfSeq(filtered_intervals), sample_rate))
    IN  [peak_scores |-> peak_scores,
         best_score |-> peak_scores[1].score,
         candidates |-> CandidatesWithinThreshold(peak_scores,
                                                  ScoreThreshold(peak_scores[1].score))]

-----------------------------------------------------------------------------
(* Claims about calculate_bpm_histogram (BpmSpec)                          *)

\* C11: calculate_bpm_histogram fails with the not-enough-beats error for
\* every list of 0, 1 or 2 beats, and never with that error for a list of
\* 3 or more beats.
C11_InsufficientBeats ==
    pc = "done" =>
        /\ Len(beats) < 3 => (~bpm.ok /\ bpm.err = "not_enough_beats")
        /\ Len(beats) >= 3 => bpm.err # "not_enough_beats"

\* C11 witness: two beats a valid interval apart were refused.
C11_Witness ==
    /\ pc = "done"
    /\ Len(beats) = 2
    /\ ValidInterval(beats[2].timestamp - beats[1].timestamp, track.sample_rate)
    /\ bpm.err = "not_enough_beats"

\* C18: a scored bin is a candidate for averaging if and only if its score
\* is at least best_score * (1 - 0.10).
C18_CandidatesWithinDeviation ==
    (pc = "done" /\ bpm.ok) =>
        LET a == ScoredPeaks(beats, track.sample_rate)
        IN  \A k \in 1..Len(a.peak_scores) :
                (\E c \in 1..Len(a.candidates) : a.candidates[c] = a.peak_scores[k])
                    <=> a.peak_scores[k].score * 100
                            >= a.best_score * (100 - SCORE_DEVIATION_PERCENTAGE)

\* averaged_bpm of calculate_bpm_histogram, before the subdivision check
AveragedOf(bs, sample_rate) ==
    AveragedBpm(ScoredPeaks(bs, sample_rate).candidates, sample_rate)

\* C22: a combined BPM of at most 160 is returned unchanged; above 160 it
\* is replaced by BPM/2 when that is in [80, 160], otherwise by BPM/3 when
\* that is in [80, 160], otherwise it is returned unchanged.
C22_HarmonicCorrection ==
    (pc = "done" /\ bpm.ok) =>
        LET averaged_bpm == AveragedOf(beats, track.sample_rate)
            half == averaged_bpm \div 2
            third == averaged_bpm \div 3
            lo == 80 * BpmScale
            hi == 160 * BpmScale
        IN  /\ averaged_bpm <= hi => bpm.bpm = averaged_bpm
            /\ (averaged_bpm > hi /\ half >= lo /\ half <= hi) => bpm.bpm = half
            /\ (averaged_bpm > hi /\ ~(half >= lo /\ half <= hi)
                    /\ third >= lo /\ third <= hi) => bpm.bpm = third
            /\ (averaged_bpm > hi /\ ~(half >= lo /\ half <= hi)
                    /\ ~(third >= lo /\ third <= hi)) => bpm.bpm = averaged_bpm

\* C22 witness: a combined BPM above 240, whose half and third are both
\* in [80, 160], was halved.
C22_Witness ==
    /\ pc = "done" /\ bpm.ok
    /\ AveragedOf(beats, track.sample_rate) > 240 * BpmScale
    /\ bpm.bpm = AveragedOf(beats, track.sample_rate) \div 2

\* the positions of the consecutive intervals of the beats that lie in
\* [0.2 s, 2.0 s], bounds included
InRangeIntervals ==
    {k \in 1..(Len(beats) - 1) :
        LET d == beats[k + 1].timestamp - beats[k].timestamp
        IN  5 * d >= track.sample_rate /\ d <= 2 * track.sample_rate}

\* C23: calculate_bpm_histogram uses exactly the consecutive intervals in
\* [0.2 s, 2.0 s], bounds included: with at least 3 beats it fails with
\* the no-valid-intervals error if and only if no interval is in the
\* range, and otherwise every scored interval lies between the smallest
\* and the largest interval in the range and the scores count them all.
C23_IntervalsInRange ==
    (pc = "done" /\ Len(beats) >= 3) =>
        /\ InRangeIntervals = {} <=> (~bpm.ok /\ bpm.err = "no_valid_intervals")
        /\ InRangeIntervals # {} =>
              LET ds == {beats[k + 1].timestamp - beats[k].timestamp : k \in InRangeIntervals}
                  filtered == FilterIntervals(Intervals(beats), track.sample_rate)
                  h == Histogram(filtered, track.sample_rate)
                  peaks == ScoredPeaks(beats, track.sample_rate).peak_scores
              IN  /\ bpm.ok
                  /\ Len(filtered) = Cardinality(InRangeIntervals)
                  /\ \A d \in ds :
                        h[((d - MinOfSeq(filtered)) * 100) \div track.sample_rate + 1] >= 1
                  /\ \A p \in 1..Len(peaks) :
                        /\ \E d \in ds : d <= peaks[p].interval
                        /\ \E d \in ds : peaks[p].interval <= d

\* C23 witness: of three intervals one is exactly 0.2 s, one exactly
\* 2.0 s and one out of the range, and a BPM was returned.
C23_Witness ==
    /\ pc = "done" /\ bpm.ok
    /\ Len(beats) = 4
    /\ Cardinality(InRangeIntervals) = 2
    /\ \E k \in InRangeIntervals :
          5 * (beats[k + 1].timestamp - beats[k].timestamp) = track.sample_rate
    /\ \E k \in InRangeIntervals :
          beats[k + 1].timestamp - beats[k].timestamp = 2 * track.sample_rate

\* C28: every BPM that calculate_bpm_histogram returns lies in [30, 160]:
\* every candidate interval is within [0.2 s, 2.0 s], the combined BPM is
\* at most 300, above 160 it is halved, and the third is never taken.
C28_ReturnedBpmInRange ==
    (pc = "done" /\ bpm.ok) =>
        LET a == ScoredPeaks(beats, track.sample_rate)
            averaged_bpm == AveragedOf(beats, track.sample_rate)
        IN  /\ bpm.bpm >= 30 * BpmScale /\ bpm.bpm <= 160 * BpmScale
            /\ \A c \in 1..Len(a.candidates) :
                  /\ 5 * a.candidates[c].interval >= track.sample_rate
                  /\ a.candidates[c].interval <= 2 * track.sample_rate
            /\ averaged_bpm <= 300 * BpmScale
            /\ averaged_bpm > 160 * BpmScale => bpm.bpm = averaged_bpm \div 2

\* C28 witness: intervals of exactly 0.2 s gave 300 BPM, returned as 150.
C28_Witness ==
    /\ pc = "done" /\ bpm.ok
    /\ AveragedOf(beats, track.sample_rate) = 300 * BpmScale
    /\ bpm.bpm = 150 * BpmScale

-----------------------------------------------------------------------------
(* The chroma profile: generate_chroma_profile and frequency_to_chroma_bin *)
(*                                                                         *)
(* Frequencies are in 1/100 Hz.  The track's spectra are the transforms    *)
(* of the analysis windows of KEY_WINDOW_SIZE samples: the (frequency,     *)
(* magnitude) pairs between MIN_FREQ and MAX_FREQ, or FftErr.              *)

KEY_WINDOW_SIZE == 8192
KEY_HOP_SIZE == 1024
MIN_FREQ == 8000
MAX_FREQ == 200000

CHROMATIC_FREQUENCIES ==
    <<26163, 27718, 29366, 31113, 32963, 34923,
      36999, 39200, 41530, 44000, 46616, 49388>>

\* 440 * 2^((n - 69.5) / 12) Hz for n = 60..72, in 1/10000 Hz: a frequency
\* between entries k and k + 1 has 12 * log2(f / 440) + 69 nearest to 59 + k
SemitoneBounds ==
    <<2541776, 2692918, 2853047, 3022698, 3202437, 3392864, 3594614,
      3808361, 4034818, 4274741, 4528930, 4798234, 5083552>>

\* SemitoneBounds[k] * 2^e <= f, with f in 1/100 Hz
AtLeastBound(f, k, e) ==
    IF e >= 0 THEN SemitoneBounds[k] * 2^e <= f * 100
    ELSE SemitoneBounds[k] <= f * 100 * 2^(0 - e)

Octaves == -5..3

\* (12.0 * (frequency / 440.0).log2() + 69.0) without the offset of A4
RoundedMidiNoteWithoutOffset(f) ==
    LET e == CHOOSE o \in Octaves : AtLeastBound(f, 1, o) /\ ~AtLeastBound(f, 13, o)
        k == CHOOSE j \in 1..12 : AtLeastBound(f, j, e) /\ ~AtLeastBound(f, j + 1, e)
    IN  12 * e + (k - 1) - 9

\* (12.0 * (frequency / 440.0).log2() + 69.0).round()
RoundedMidiNote(f) ==
    LET e == CHOOSE o \in Octaves : AtLeastBound(f, 1, o) /\ ~AtLeastBound(f, 13, o)
        k == CHOOSE j \in 1..12 : AtLeastBound(f, j, e) /\ ~AtLeastBound(f, j + 1, e)
    IN  60 + 12 * e + (k - 1)

\* a % b of two i32, the sign of a
Rem(a, b) == IF a >= 0 THEN a % b ELSE 0 - ((0 - a) % b)

frequency_to_chroma_bin(frequency) ==
    LET midi_note == RoundedMidiNote(frequency)
        chroma_class == Rem(midi_note, 12)
    IN  (chroma_class + 12) % 12

MaxKeyWindows == 3     \* analysis windows of a track

\* windows the loop of generate_chroma_profile transforms: it stops at the
\* first window with less than half its samples
NumKeyWindows(samples_len) ==
    IF samples_len < KEY_WINDOW_SIZE \div 2 THEN 0
    ELSE (samples_len - KEY_WINDOW_SIZE \div 2) \div KEY_HOP_SIZE + 1

Peak(f, m) == [frequency |-> f, magnitude |-> m]

\* spectra of a window: silence, A in three octaves, a C major chord, a
\* loud fifth on A, and a transform that fails
WindowSpectra ==
    { <<Peak(26163, 0), Peak(44000, 0)>>,
      <<Peak(22000, 1), Peak(44000, 3), Peak(88000, 1)>>,
      <<Peak(26163, 2), Peak(32963, 2), Peak(39200, 1)>>,
      <<Peak(44000, 6), Peak(65926, 4)>>,
      FftErr }

\* magnitude_val the Ok arm adds for one window, at pitch class bin
WindowEnergyAt(w, bin) ==
    IF w = FftErr THEN 0
    ELSE SumSeq([k \in 1..Len(w) |->
                    IF frequency_to_chroma_bin(w[k].frequency) = bin
                    THEN w[k].magnitude ELSE 0])

\* the energy of the first window only
TotalEnergyOfFirstWindow(spectra) ==
    IF spectra = <<>> \/ spectra[1] = FftErr THEN 0
    ELSE SumSeq([k \in 1..Len(spectra[1]) |-> spectra[1][k].magnitude])

\* total_energy after the loop
TotalEnergy(spectra) ==
    SumSeq([w \in 1..Len(spectra) |->
               IF spectra[w] = FftErr THEN 0
               ELSE SumSeq([k \in 1..Len(spectra[w]) |-> spectra[w][k].magnitude])])

\* chroma_bins after the loop
ChromaBins(spectra) ==
    [b \in 1..12 |-> SumSeq([w \in 1..Len(spectra) |-> WindowEnergyAt(spectra[w], b - 1)])]

\* window_count after the loop
WindowCount(spectra) == Cardinality({w \in 1..Len(spectra) : spectra[w] # FftErr})

\* the profile in 1/100, or the error
generate_chroma_profile(spectra) ==
    IF WindowCount(spectra) = 0
    THEN [ok |-> FALSE, profile |-> <<>>]
    ELSE LET chroma_bins == ChromaBins(spectra)
             total_energy == TotalEnergy(spectra)
         IN  [ok |-> TRUE,
              profile |-> IF total_energy > 0
                          THEN [b \in 1..12 |-> (100 * chroma_bins[b]) \div total_energy]
                          ELSE chroma_bins]

KeySampleCounts ==
    {0, KEY_WINDOW_SIZE \div 2 - 1}
        \cup {KEY_WINDOW_SIZE \div 2 + n * KEY_HOP_SIZE : n \in 0..(MaxKeyWindows - 1)}

\* the normalised values are whole hundredths
WholeHundredths(spectra) ==
    TotalEnergy(spectra) > 0 =>
        \A b \in 1..12 : (100 * ChromaBins(spectra)[b]) % TotalEnergy(spectra) = 0

KeyTracks ==
    UNION {{[sample_rate |-> sr, samples_len |-> n, spectra |-> sp] :
               sr \in {44100},
               sp \in {x \in [1..NumKeyWindows(n) -> WindowSpectra] : WholeHundredths(x)}} :
           n \in KeySampleCounts}

ChromaInit ==
    /\ kpc = "chroma"
    /\ track \in KeyTracks
    /\ chroma_profile = <<>>
    /\ best_key = <<>>
    /\ key = <<>>
    /\ pc = "idle"
    /\ spectrogram = <<>>
    /\ spectrogram_path = <<>>
    /\ cluster_beats = <<>>
    /\ beats = <<>>
    /\ analysis_cache = NoCache
    /\ bpm = NoBpm
    /\ result = Pending
    /\ SvcIdle

\* Step 2 of analyze_key_blocking: generate_chroma_profile(&track.samples, ..)?
GenerateChromaProfile ==
    /\ kpc = "chroma"
    /\ LET r == generate_chroma_profile(track.spectra)
       IN  IF r.ok
           THEN /\ chroma_profile' = r.profile
                /\ kpc' = "detect"
                /\ result' = result
           ELSE /\ chroma_profile' = <<>>
                /\ kpc' = "done"
                /\ result' = Err("Failed to generate chromatic profile")
    /\ UNCHANGED <<best_key, key>>
    /\ UNCHANGED <<pc, track, spectrogram, spectrogram_path, cluster_beats, beats,
                   analysis_cache, bpm>>
    /\ UNCHANGED svcVars

ChromaNext == GenerateChromaProfile \/ DetectKeyFromChroma

ChromaSpec == ChromaInit /\ [][ChromaNext]_vars

\* frequencies of the analysed band: every 10 Hz, and the chromatic scale
BandFrequencies ==
    {MIN_FREQ + 1000 * n : n \in 0..((MAX_FREQ - MIN_FREQ) \div 1000)}
        \cup {CHROMATIC_FREQUENCIES[k] : k \in 1..12}

\* C13: frequency_to_chroma_bin maps 440.0 Hz to 9, 261.63 Hz to 0 and
\* 523.25 Hz to 0, and f and 2f map to the same pitch class for every
\* frequency f of the analysed band; a track whose windows hold A in three
\* octaves has all its energy at pitch class 9.
C13_OctaveInvariantBins ==
    /\ frequency_to_chroma_bin(44000) = 9
    /\ frequency_to_chroma_bin(26163) = 0
    /\ frequency_to_chroma_bin(52325) = 0
    /\ \A k \in 1..12 : frequency_to_chroma_bin(CHROMATIC_FREQUENCIES[k]) = k - 1
    /\ \A f \in BandFrequencies :
          /\ frequency_to_chroma_bin(f) \in 0..11
          /\ frequency_to_chroma_bin(2 * f) = frequency_to_chroma_bin(f)
    /\ (/\ kpc \in {"detect", "done"}
        /\ chroma_profile # <<>>
        /\ \A w \in 1..Len(track.spectra) :
              track.spectra[w] = <<Peak(22000, 1), Peak(44000, 3), Peak(88000, 1)>>)
          => chroma_profile = Profile(9, 9, 100)

\* C13 witness: the profile of a track of A in three octaves was built.
C13_Witness ==
    /\ kpc = "detect"
    /\ Len(track.spectra) >= 2
    /\ \A w \in 1..Len(track.spectra) :
          track.spectra[w] = <<Peak(22000, 1), Peak(44000, 3), Peak(88000, 1)>>
    /\ chroma_profile = Profile(9, 9, 100)

\* no analysis window of the track was transformed
NoWindowSucceeded ==
    \A w \in 1..NumKeyWindows(track.samples_len) : track.spectra[w] = FftErr

\* some window of the track holds a peak of positive magnitude
EnergyAccumulated ==
    \E w \in 1..Len(track.spectra) :
        /\ track.spectra[w] # FftErr
        /\ \E k \in 1..Len(track.spectra[w]) : track.spectra[w][k].magnitude > 0

\* C14: generate_chroma_profile fails exactly when no analysis window
\* succeeded; the profile it returns has 12 non-negative values, which sum
\* to 1.0 when energy was accumulated and are all zero when the total
\* energy is 0.
C14_ProfileNormalised ==
    kpc # "chroma" =>
        /\ NoWindowSucceeded <=>
              (chroma_profile = <<>> /\ result = Err("Failed to generate chromatic profile"))
        /\ ~NoWindowSucceeded =>
              /\ result = Pending
              /\ DOMAIN chroma_profile = 1..12
              /\ \A b \in 1..12 : chroma_profile[b] >= 0
              /\ EnergyAccumulated => SumSeq(chroma_profile) = 100
              /\ ~EnergyAccumulated => chroma_profile = ZeroProfile

\* C14 witness: a profile built from several windows, one of them failed
\* and the others of different energy, sums to 1.0.
C14_Witness ==
    /\ kpc = "detect"
    /\ \E w \in 1..Len(track.spectra) : track.spectra[w] = FftErr
    /\ TotalEnergy(track.spectra) > 6
    /\ Cardinality({b \in 1..12 : chroma_profile[b] > 0}) >= 2
    /\ SumSeq(chroma_profile) = 100

=============================================================================
